---- MODULE Spec2Model ----
(***************************************************************************)
(* TypstScan: the capture -> transcribe -> convert -> rewrite -> deliver   *)
(* pipeline of src/src/worker.rs, the hotkey trigger of src/src/main.rs    *)
(* and the per-tick result merge of src/src/app.rs.                        *)
(*                                                                         *)
(* Strings are sequences of one-character strings, so that str::replace    *)
(* is computed character by character as the standard library does.        *)
(***************************************************************************)
EXTENDS Integers, Sequences, FiniteSets, TLC

(***************************************************************************)
(* Bounds of the model.                                                    *)
(***************************************************************************)
\* number of SnipTasks the trigger may create in one behaviour
MaxTasks == 2
\* longest converted text drawn for the rule engine's own specification
MaxLen == 2
\* longest replace_rules list drawn for the rule engine's own specification
MaxRules == 2
\* number of clicks on "Add Snip Item" in one behaviour
MaxAdded == 1

(***************************************************************************)
(* Value sets.                                                             *)
(***************************************************************************)
Modes == {"Continuous", "CopyTeX", "CopyTypst"}

Platforms == {"macos", "windows"}

\* "k\n" stands for a key holding a byte HeaderValue::from_str rejects
Keys == {"k1", "k\n"}

Rule(p, r) == [pattern |-> p, replacement |-> r]

Views == {"Main", "ContinuousClipboard", "ReplaceRules", "Settings"}

\* Option<(i32, i32)>
None == [some |-> FALSE, pos |-> <<0, 0>>]

Some(p) == [some |-> TRUE, pos |-> p]

\* what get_mouse_position may return
MousePositions == {None, Some(<<10, 10>>), Some(<<50, 40>>)}

\* the fields of a MathpixResult the pipeline reads, for the bodies a
\* service response may carry
Bodies ==
    {[text |-> <<"a">>, snip_count |-> 1, snip_limit |-> 5],
     [text |-> <<"b", "a">>, snip_count |-> 2, snip_limit |-> 5]}

\* tex2typst_rs::text_and_tex2typst, a pure function to Result<String, _>,
\* on the texts of Bodies: one it converts, one it fails on
text_and_tex2typst(text) ==
    IF text = <<"a">> THEN [ok |-> TRUE, val |-> <<"a", "r">>]
    ELSE [ok |-> FALSE, val |-> <<"e">>]

\* replace_rules lists loaded from storage
RuleLists ==
    {<<>>, <<Rule(<<"a">>, <<"r">>), Rule(<<"r">>, <<"c">>)>>}

VARIABLES
    platform,            \* target_os the binary was built for
    mathpix_api_key,     \* TypstScanData.mathpix_api_key
    replace_rules,       \* TypstScanData.replace_rules
    clipboard_mode,      \* TypstScanData.clipboard_mode
    bring_forward,       \* TypstScanData.bring_forward
    poisoned,            \* the Mutex around TypstScanData is poisoned
    task_queue,          \* mpsc channel of SnipTask, oldest first
    next_id,             \* the next fresh Uuid (SnipTask and SnipItem ids)
    hook_alive,          \* the hotkey callback thread has not panicked
    ui_alive,            \* the eframe app (task_sender, result_receiver) is not dropped
    w_pc,                \* the worker thread's position in start_worker's loop
    w,                   \* the worker thread's locals for the task in hand
    result_channel,      \* mpsc channel of TaskResult, oldest first
    clipboard,           \* the system clipboard's text
    snip_items,          \* TypstScanData.snip_items
    selected_snip_item,  \* TypstScanData.selected_snip_item
    usage,               \* the displayed usage counters
    continuous_buffer,   \* the accumulation buffer of Continuous mode
    hist,                \* history: per task, what happened to it
    clip_log,            \* history: every clipboard write, in order
    emitted,             \* history: the id of every TaskResult sent, in order
    buf_log,             \* history: the task of every block appended to the buffer
    main_view,           \* TypstScanData.main_view
    overlay,             \* TypstScan.overlay, the shared flag
    screenshot_start,    \* TypstScan.screenshot_start
    screenshot_end,      \* TypstScan.screenshot_end
    result_queue,        \* TypstScan.result_queue, a Vec
    threads,             \* the get_mathpix_result threads in flight
    captures,            \* history: number of threads spawned so far
    added,               \* history: number of clicks on "Add Snip Item"
    main_exited          \* main is past the join: its locals, the hook included, are dropped

vars ==
    <<platform, mathpix_api_key, replace_rules, clipboard_mode, bring_forward,
      poisoned, task_queue, next_id, hook_alive, ui_alive, w_pc, w,
      result_channel, clipboard, snip_items, selected_snip_item, usage,
      continuous_buffer, hist, clip_log, emitted, buf_log, main_view, overlay,
      screenshot_start, screenshot_end, result_queue, threads, captures, added,
      main_exited>>

config_vars == <<mathpix_api_key, replace_rules, clipboard_mode, bring_forward>>

ui_vars == <<snip_items, selected_snip_item, usage, continuous_buffer>>

app_vars ==
    <<main_view, overlay, screenshot_start, screenshot_end, result_queue, threads,
      captures, added, main_exited>>

\* what the overlay revision of the app never touches
pipeline_vars ==
    <<platform, replace_rules, clipboard_mode, bring_forward, poisoned, task_queue,
      hook_alive, w_pc, w, result_channel, clipboard, usage, continuous_buffer, hist,
      clip_log, emitted, buf_log, main_exited>>

(***************************************************************************)
(* Pure functions.                                                         *)
(***************************************************************************)
\* str::replace(pat, to): every non-overlapping match, leftmost first; the
\* empty pattern matches at every character boundary, the end included
RECURSIVE replace(_, _, _)
replace(s, pat, to) ==
    IF pat = <<>>
    THEN IF s = <<>> THEN to ELSE to \o <<Head(s)>> \o replace(Tail(s), pat, to)
    ELSE IF Len(s) < Len(pat) THEN s
    ELSE IF SubSeq(s, 1, Len(pat)) = pat
         THEN to \o replace(SubSeq(s, Len(pat) + 1, Len(s)), pat, to)
         ELSE <<Head(s)>> \o replace(Tail(s), pat, to)


\* the rules taken from the end of the list
RECURSIVE ApplyRulesReversed(_, _)
ApplyRulesReversed(text, rules) ==
    IF rules = <<>> THEN text
    ELSE LET last == rules[Len(rules)]
         IN  ApplyRulesReversed(replace(text, last.pattern, last.replacement),
                                SubSeq(rules, 1, Len(rules) - 1))

\* worker.rs:110-112, the loop over replace_rules with the rules in the
\* order given: each rule rewrites what the rule before it returned
RECURSIVE ApplyRules(_, _)
ApplyRules(text, rules) ==
    IF rules = <<>> THEN text
    ELSE ApplyRules(replace(text, Head(rules).pattern, Head(rules).replacement),
                    Tail(rules))

\* format!("Error: {:?}", e)
ErrorPrefix == <<"E", "r", "r", "o", "r", ":", " ">>

ConvertedOrEmpty(conv) == IF conv.ok THEN conv.val ELSE <<>>

\* worker.rs:107, unwrap_or_else on the converter's Result
ConvertedOrMessage(conv) == IF conv.ok THEN conv.val ELSE ErrorPrefix \o conv.val

WritesClipboardAlways(mode) == TRUE

\* worker.rs:114-124, the arms of the match that call set_text
WritesClipboard(mode) == mode \in {"CopyTeX", "CopyTypst"}

ClipboardTextUnreplaced(mode, text, typst, typst_replaced) ==
    IF mode = "CopyTeX" THEN text ELSE typst

\* worker.rs:119 and 122, the argument of set_text
ClipboardText(mode, text, typst, typst_replaced) ==
    IF mode = "CopyTeX" THEN text ELSE typst_replaced

\* worker.rs:109-125: both set_text calls are inside the block of
\* `if let Ok(app_data) = app_data.lock()`, the guard still in scope
GuardHeldAtSetText == TRUE

\* HeaderValue::from_str accepts visible ASCII only
ValidHeaderValue(key) == key # "k\n"

SentTwice(channel, result) == Append(Append(channel, result), result)

\* Sender::send on an open channel
Sent(channel, result) == Append(channel, result)

SubmittedDeduplicated(queue, task) ==
    IF queue = <<>> THEN Append(queue, task) ELSE queue

\* main.rs:31, Sender::send on the unbounded task channel
Submitted(queue, task) == Append(queue, task)

NextAfterDropHalts == "halted"

RequestCredentialLive(snapshot, live) == live

\* worker.rs:100, headers.clone(): the header map built at lines 75-84
RequestCredential(snapshot, live) == snapshot

\* worker.rs:141-146: after a dropped task the for loop takes the next one
NextAfterDrop == "recv"

(***************************************************************************)
(* Initial state: main has created the channels and spawned the worker,    *)
(* TypstScanData is as loaded from storage.                                *)
(***************************************************************************)
WIdle ==
    [task |-> 0, key |-> "", text |-> <<>>, snip_count |-> 0, snip_limit |-> 0,
     conv |-> [ok |-> TRUE, val |-> <<>>], typst |-> <<>>, typst_replaced |-> <<>>,
     authorization |-> ""]

NoHist == [t \in {} |-> 0]

Init ==
    /\ platform \in Platforms
    /\ mathpix_api_key \in Keys
    /\ replace_rules \in RuleLists
    /\ clipboard_mode \in Modes
    /\ bring_forward \in BOOLEAN
    /\ poisoned = FALSE
    /\ task_queue = <<>>
    /\ next_id = 1
    /\ hook_alive = TRUE
    /\ ui_alive = TRUE
    /\ w_pc = "recv"
    /\ w = WIdle
    /\ result_channel = <<>>
    /\ clipboard = <<>>
    /\ snip_items = <<>>
    /\ selected_snip_item = 0
    /\ usage = [snip_count |-> 0, snip_limit |-> 0]
    /\ continuous_buffer = <<>>
    /\ hist = NoHist
    /\ clip_log = <<>>
    /\ emitted = <<>>
    /\ buf_log = <<>>
    /\ main_view = "Main"
    /\ overlay = FALSE
    /\ screenshot_start = None
    /\ screenshot_end = None
    /\ result_queue = <<>>
    /\ threads = {}
    /\ captures = 0
    /\ added = 0
    /\ main_exited = FALSE

Tasks == DOMAIN hist

\* the task in hand ends: its outcome is kept, its mode snapshots are not
SetOutcome(o) ==
    [hist EXCEPT ![w.task] = [enq_mode |-> "none", outcome |-> o, read_mode |-> "none"]]

\* a panic unwinds the worker thread; the guard it holds poisons the Mutex
Panic(holding_lock, cause) ==
    /\ w_pc' = "panicked"
    /\ w' = WIdle
    /\ poisoned' = (poisoned \/ holding_lock)
    /\ hist' = SetOutcome(cause)

(***************************************************************************)
(* The trigger: the hotkey callback of main.rs.                            *)
(***************************************************************************)
Hotkey ==
    /\ hook_alive
    /\ Cardinality(Tasks) < MaxTasks
    /\ IF w_pc = "panicked"
       THEN \* the receiver went with the worker: send is Err, unwrap panics
            /\ hook_alive' = FALSE
            /\ UNCHANGED <<task_queue, next_id, hist>>
       ELSE /\ task_queue' = Submitted(task_queue, [id |-> next_id])
            /\ next_id' = next_id + 1
            /\ hist' = [t \in Tasks \cup {next_id} |->
                          IF t \in Tasks THEN hist[t]
                          ELSE [enq_mode |-> clipboard_mode, outcome |-> "queued",
                                read_mode |-> "none"]]
            /\ UNCHANGED hook_alive
    /\ UNCHANGED <<app_vars, platform, config_vars, poisoned, ui_alive, w_pc, w,
                   result_channel, clipboard, ui_vars, clip_log, emitted, buf_log>>

(***************************************************************************)
(* The worker thread: one iteration of `for snip_task in task_receiver`.   *)
(***************************************************************************)
\* a Sender of the task channel is still owned: the app's task_sender
\* (main.rs:40) or the clone moved into the hook's callback (main.rs:28-32)
TaskSenderAlive == ui_alive \/ ~main_exited

WorkerRecv ==
    /\ w_pc = "recv"
    /\ IF task_queue # <<>>
       THEN /\ w' = [WIdle EXCEPT !.task = Head(task_queue).id]
            /\ task_queue' = Tail(task_queue)
            /\ w_pc' = "bring"
            /\ hist' = [hist EXCEPT ![Head(task_queue).id].outcome = "running"]
       ELSE \* the iterator ends when the channel is empty and every Sender dropped
            /\ ~TaskSenderAlive
            /\ w_pc' = "exited"
            /\ UNCHANGED <<w, task_queue, hist>>
    /\ UNCHANGED <<app_vars, platform, config_vars, poisoned, next_id, hook_alive, ui_alive,
                   result_channel, clipboard, ui_vars, clip_log, emitted, buf_log>>

WorkerBringForward ==
    /\ w_pc = "bring"
    /\ IF ~poisoned /\ bring_forward
       THEN IF platform = "windows"
            THEN Panic(TRUE, "unimplemented")    \* unimplemented!()
            ELSE \E spawned \in BOOLEAN :   \* Command::output().unwrap()
                    IF spawned
                    THEN w_pc' = "headers" /\ UNCHANGED <<w, poisoned, hist>>
                    ELSE Panic(TRUE, "osascript_failed")
       ELSE w_pc' = "headers" /\ UNCHANGED <<w, poisoned, hist>>
    /\ UNCHANGED <<app_vars, platform, config_vars, task_queue, next_id, hook_alive, ui_alive,
                   result_channel, clipboard, ui_vars, clip_log, emitted, buf_log>>

WorkerHeaders ==
    /\ w_pc = "headers"
    /\ IF poisoned \/ ~ValidHeaderValue(mathpix_api_key)
       THEN \* lock().unwrap() on a poisoned Mutex, from_str(..).unwrap()
            Panic(FALSE, IF poisoned THEN "lock_poisoned" ELSE "header_rejected")
       ELSE /\ w' = [w EXCEPT !.key = mathpix_api_key]
            /\ w_pc' = "capture"
            /\ UNCHANGED <<poisoned, hist>>
    /\ UNCHANGED <<app_vars, platform, config_vars, task_queue, next_id, hook_alive, ui_alive,
                   result_channel, clipboard, ui_vars, clip_log, emitted, buf_log>>

\* what get_screenshot and the read of its file can come to
ScreenshotOutcomes ==
    IF platform = "macos"
    THEN {"spawn_failed", "cancelled", "saved", "unreadable"}
    ELSE {"saved", "unreadable"}

\* the task in hand is dropped without a result
Drop(outcome) ==
    /\ w_pc' = NextAfterDrop
    /\ w' = WIdle
    /\ hist' = SetOutcome(outcome)
    /\ UNCHANGED poisoned

WorkerCapture ==
    /\ w_pc = "capture"
    /\ \E shot \in ScreenshotOutcomes :
          IF shot = "cancelled"
          THEN Drop("cancelled")       \* None => continue
          ELSE IF shot = "saved"
          THEN w_pc' = "request" /\ UNCHANGED <<w, poisoned, hist>>
          ELSE Panic(FALSE, "capture_failed")    \* output().unwrap(), read(..).expect(..)
    /\ UNCHANGED <<app_vars, platform, config_vars, task_queue, next_id, hook_alive, ui_alive,
                   result_channel, clipboard, ui_vars, clip_log, emitted, buf_log>>

\* what Client::send and Response::json can come to: json never looks at
\* the status, only at the body
Responses ==
    {[kind |-> "transport_error", status |-> 0, parsed |-> FALSE,
      text |-> <<>>, snip_count |-> 0, snip_limit |-> 0]}
    \cup {[kind |-> "http", status |-> st, parsed |-> FALSE,
           text |-> <<>>, snip_count |-> 0, snip_limit |-> 0] : st \in {200, 401}}
    \cup {[kind |-> "http", status |-> 200, parsed |-> TRUE,
           text |-> b.text, snip_count |-> b.snip_count, snip_limit |-> b.snip_limit] :
              b \in Bodies}

WorkerTranscribe ==
    /\ w_pc = "request"
    /\ \E response \in Responses :
          IF response.kind = "transport_error"
          THEN Panic(FALSE, "transport_failed")  \* send().unwrap()
          ELSE IF ~response.parsed
          THEN Drop("malformed")       \* Err(e) => eprintln!
          ELSE /\ LET conv == text_and_tex2typst(response.text)
                  IN  w' = [w EXCEPT !.text = response.text,
                                     !.snip_count = response.snip_count,
                                     !.snip_limit = response.snip_limit,
                                     !.conv = conv,
                                     !.authorization =
                                         RequestCredential(w.key, mathpix_api_key),
                                     !.typst = ConvertedOrMessage(conv),
                                     !.typst_replaced = ConvertedOrMessage(conv)]
               /\ w_pc' = "deliver"
               /\ UNCHANGED <<poisoned, hist>>
    /\ UNCHANGED <<app_vars, platform, config_vars, task_queue, next_id, hook_alive, ui_alive,
                   result_channel, clipboard, ui_vars, clip_log, emitted, buf_log>>

WorkerDeliver ==
    /\ w_pc = "deliver"
    /\ IF poisoned
       THEN /\ w_pc' = "send"
            /\ UNCHANGED <<w, poisoned, hist, clipboard, clip_log>>
       ELSE LET replaced == ApplyRules(w.typst, replace_rules)
                new_text == ClipboardText(clipboard_mode, w.text, w.typst, replaced)
                read == [hist EXCEPT ![w.task].read_mode = clipboard_mode]
            IN  IF WritesClipboard(clipboard_mode)
                THEN \E written \in BOOLEAN :   \* Clipboard::new / set_text
                        IF written
                        THEN /\ clipboard' = new_text
                             /\ clip_log' = Append(clip_log,
                                              [id |-> w.task, text |-> new_text,
                                               locked |-> GuardHeldAtSetText])
                             /\ w' = [w EXCEPT !.typst_replaced = replaced]
                             /\ w_pc' = "send"
                             /\ hist' = read
                             /\ UNCHANGED poisoned
                        ELSE /\ Panic(TRUE, "clipboard_failed")
                             /\ UNCHANGED <<clipboard, clip_log>>
                ELSE /\ w' = [w EXCEPT !.typst_replaced = replaced]
                     /\ w_pc' = "send"
                     /\ hist' = read
                     /\ UNCHANGED <<poisoned, clipboard, clip_log>>
    /\ UNCHANGED <<app_vars, platform, config_vars, task_queue, next_id, hook_alive, ui_alive,
                   result_channel, ui_vars, emitted, buf_log>>

TaskResultFreshId ==
    [id |-> next_id, text |-> w.text, typst |-> w.typst_replaced,
     snip_count |-> w.snip_count, snip_limit |-> w.snip_limit]

TaskResultTextReplaced ==
    [id |-> w.task, text |-> ApplyRules(w.text, replace_rules),
     typst |-> w.typst_replaced, snip_count |-> w.snip_count,
     snip_limit |-> w.snip_limit]

\* worker.rs:127-138, the fields of the TaskResult the model keeps
TaskResult ==
    [id |-> w.task, text |-> w.text, typst |-> w.typst_replaced,
     snip_count |-> w.snip_count, snip_limit |-> w.snip_limit]

WorkerSend ==
    /\ w_pc = "send"
    /\ IF ui_alive
       THEN /\ result_channel' = Sent(result_channel, TaskResult)
            /\ emitted' = emitted \o [i \in 1..(Len(result_channel') - Len(result_channel))
                                        |-> result_channel'[Len(result_channel) + i].id]
            /\ w_pc' = "recv"
            /\ w' = WIdle
            /\ hist' = SetOutcome("result")
            /\ UNCHANGED poisoned
       ELSE /\ Panic(FALSE, "channel_closed")          \* send(..).unwrap()
            /\ UNCHANGED <<result_channel, emitted>>
    /\ UNCHANGED <<app_vars, platform, config_vars, task_queue, next_id, hook_alive, ui_alive,
                   clipboard, ui_vars, clip_log, buf_log>>

(***************************************************************************)
(* The UI thread of the revision worker.rs is written against: it owns     *)
(* the result channel's receiver and edits the shared TypstScanData.       *)
(***************************************************************************)
SnipItemOf(result, uuid) ==
    [id |-> uuid, tex |-> result.text, typst |-> result.typst, from |-> result.id]

LineSeparator == <<"\n">>

\* one tick of update: a single try_recv on the result channel
MergeTick ==
    /\ ui_alive
    /\ result_channel # <<>>
    /\ LET result == Head(result_channel)
       IN  /\ result_channel' = Tail(result_channel)
           /\ snip_items' = Append(snip_items, SnipItemOf(result, next_id))
           /\ selected_snip_item' = next_id
           /\ next_id' = next_id + 1
           /\ usage' = [snip_count |-> result.snip_count,
                        snip_limit |-> result.snip_limit]
           /\ continuous_buffer' =
                 IF clipboard_mode = "Continuous"
                 THEN continuous_buffer \o result.typst \o LineSeparator
                 ELSE continuous_buffer
           /\ buf_log' =
                 IF clipboard_mode = "Continuous"
                 THEN Append(buf_log, result.id)
                 ELSE buf_log
    /\ UNCHANGED <<app_vars, platform, config_vars, poisoned, task_queue, hook_alive, ui_alive,
                   w_pc, w, clipboard, hist, clip_log, emitted>>

SetClipboardMode ==
    /\ ui_alive
    /\ \E mode \in Modes \ {clipboard_mode} : clipboard_mode' = mode
    /\ UNCHANGED <<app_vars, platform, mathpix_api_key, replace_rules, bring_forward, poisoned,
                   task_queue, next_id, hook_alive, ui_alive, w_pc, w, result_channel,
                   clipboard, ui_vars, hist, clip_log, emitted, buf_log>>

\* the keys the user may type
EditedKeys == Keys \cup {"k2"}

\* the TextEdit bound to mathpix_api_key
SetApiKey ==
    /\ ui_alive
    /\ \E key \in EditedKeys \ {mathpix_api_key} : mathpix_api_key' = key
    /\ UNCHANGED <<app_vars, platform, replace_rules, clipboard_mode, bring_forward, poisoned,
                   task_queue, next_id, hook_alive, ui_alive, w_pc, w, result_channel,
                   clipboard, ui_vars, hist, clip_log, emitted, buf_log>>

\* run_native returns and drops the app with its receiver
Shutdown ==
    /\ ui_alive
    /\ ui_alive' = FALSE
    /\ UNCHANGED <<app_vars, platform, config_vars, poisoned, task_queue, next_id, hook_alive,
                   w_pc, w, result_channel, clipboard, ui_vars, hist, clip_log,
                   emitted, buf_log>>

Next ==
    \/ Hotkey
    \/ WorkerRecv
    \/ WorkerBringForward
    \/ WorkerHeaders
    \/ WorkerCapture
    \/ WorkerTranscribe
    \/ WorkerDeliver
    \/ WorkerSend
    \/ MergeTick
    \/ SetClipboardMode
    \/ Shutdown

Spec == Init /\ [][Next]_vars

(***************************************************************************)
(* The app of src/src/app.rs: the overlay capture, one get_mathpix_result  *)
(* thread per capture, and update, which merges from result_queue.         *)
(***************************************************************************)
InitApp ==
    /\ platform = "macos"
    /\ mathpix_api_key \in Keys
    /\ replace_rules = <<>>
    /\ clipboard_mode = "Continuous"
    /\ bring_forward = FALSE
    /\ poisoned = FALSE
    /\ task_queue = <<>>
    /\ next_id = 1
    /\ hook_alive = TRUE
    /\ ui_alive = TRUE
    /\ w_pc = "recv"
    /\ w = WIdle
    /\ result_channel = <<>>
    /\ clipboard = <<>>
    /\ snip_items = <<>>
    /\ selected_snip_item = 0
    /\ usage = [snip_count |-> 0, snip_limit |-> 0]
    /\ continuous_buffer = <<>>
    /\ hist = NoHist
    /\ clip_log = <<>>
    /\ emitted = <<>>
    /\ buf_log = <<>>
    /\ main_view = "Main"
    /\ overlay = FALSE
    /\ screenshot_start = None
    /\ screenshot_end = None
    /\ result_queue = <<>>
    /\ threads = {}
    /\ captures = 0
    /\ added = 0
    /\ main_exited = FALSE

\* the hotkey of this revision raises the shared flag
OverlayHotkey ==
    /\ ui_alive
    /\ ~overlay
    /\ overlay' = TRUE
    /\ UNCHANGED <<pipeline_vars, mathpix_api_key, next_id, ui_alive, snip_items,
                   selected_snip_item, main_view, screenshot_start, screenshot_end,
                   result_queue, threads, captures, added>>

\* one input event of a frame
Event(kind, view, index, key, mouse, cropped) ==
    [kind |-> kind, view |-> view, index |-> index, key |-> key, mouse |-> mouse,
     cropped |-> cropped]

\* the events the widgets shown in this frame can report, items being the
\* item list after the merge
EventsNow(items) ==
    {Event("none", main_view, 0, mathpix_api_key, None, TRUE)}
    \cup {Event("tab", v, 0, mathpix_api_key, None, TRUE) : v \in Views \ {main_view}}
    \cup (IF main_view = "Main"
          THEN {Event("row", main_view, i, mathpix_api_key, None, TRUE) :
                   i \in DOMAIN items}
          ELSE {})
    \cup (IF main_view = "Settings"
          THEN {Event("key", main_view, 0, k, None, TRUE) :
                   k \in Keys \ {mathpix_api_key}}
               \cup {Event(kind, main_view, 0, mathpix_api_key, None, TRUE) :
                        kind \in {"delete_all", "checkbox"}}
               \cup (IF added < MaxAdded
                     THEN {Event("add", main_view, 0, mathpix_api_key, None, TRUE)}
                     ELSE {})
          ELSE {})
    \cup (IF overlay /\ (screenshot_start.some => captures < MaxTasks)
          THEN {Event("click", main_view, 0, mathpix_api_key, m, c) :
                   m \in MousePositions, c \in BOOLEAN}
          ELSE {})

\* app.rs:101-107; in this revision text_and_tex2typst returns the String
MergedItem(result, uuid) ==
    [id |-> uuid, tex |-> result.text, typst |-> text_and_tex2typst(result.text).val,
     from |-> result.from]

\* app.rs:211-217
TestItem(uuid) ==
    [id |-> uuid, tex |-> <<"t", "e", "x">>, typst |-> <<"t", "y", "p">>, from |-> 0]

\* app.rs:98, Vec::pop: the element pushed last
Popped(queue) == queue[Len(queue)]

RestAfterPopKept(queue) == queue

RestAfterPopDrained(queue) == <<>>

\* app.rs:98, what Vec::pop leaves
RestAfterPop(queue) == SubSeq(queue, 1, Len(queue) - 1)

\* app.rs:228, ProgressBar::new(0.618): the fraction the "API usage" bar
\* shows, in thousandths
ProgressBarFraction == 618

\* one call of update
Update ==
    /\ ui_alive
    /\ LET merges == result_queue # <<>>
           items == IF merges
                    THEN Append(snip_items, MergedItem(Popped(result_queue), next_id))
                    ELSE snip_items
           uuid == IF merges THEN next_id + 1 ELSE next_id
       IN  /\ result_queue' = IF merges THEN RestAfterPop(result_queue)
                              ELSE result_queue
           /\ \E e \in EventsNow(items) :
                 LET second == e.kind = "click" /\ screenshot_start.some
                     done == second /\ e.mouse.some /\ e.cropped
                 IN  /\ main_view' = e.view
                     /\ mathpix_api_key' = e.key
                     /\ snip_items' =
                           IF e.kind = "add" THEN Append(items, TestItem(uuid))
                           ELSE IF e.kind = "delete_all" THEN <<>>
                           ELSE items
                     /\ next_id' = IF e.kind = "add" THEN uuid + 1 ELSE uuid
                     /\ added' = IF e.kind = "add" THEN added + 1 ELSE added
                     /\ selected_snip_item' =
                           IF e.kind = "row" THEN items[e.index].id
                           ELSE selected_snip_item
                     /\ overlay' =
                           IF e.kind = "checkbox" THEN ~overlay
                           ELSE IF done THEN FALSE
                           ELSE overlay
                     /\ screenshot_start' =
                           IF e.kind = "click" /\ ~second THEN e.mouse
                           ELSE IF done THEN None
                           ELSE screenshot_start
                     /\ screenshot_end' =
                           IF second /\ ~done THEN e.mouse ELSE screenshot_end
                     \* unwrap of a None position, expect in the crop
                     /\ ui_alive' = (second => done)
                     /\ threads' =
                           IF done
                           THEN threads \cup {[seq |-> captures + 1,
                                                api_key |-> mathpix_api_key]}
                           ELSE threads
                     /\ captures' = IF done THEN captures + 1 ELSE captures
    /\ UNCHANGED pipeline_vars

\* a get_mathpix_result thread runs to its end
MathpixThread ==
    /\ ui_alive
    /\ \E t \in threads, response \in Responses :
          /\ threads' = threads \ {t}
          /\ result_queue' =
                IF ValidHeaderValue(t.api_key) /\ response.parsed
                THEN Append(result_queue,
                            [text |-> response.text, snip_count |-> response.snip_count,
                             snip_limit |-> response.snip_limit, from |-> t.seq])
                ELSE result_queue
    /\ UNCHANGED <<pipeline_vars, mathpix_api_key, next_id, ui_alive, snip_items,
                   selected_snip_item, main_view, overlay, screenshot_start,
                   screenshot_end, captures, added>>

NextApp ==
    \/ OverlayHotkey
    \/ Update
    \/ MathpixThread

SpecApp == InitApp /\ [][NextApp]_vars

(***************************************************************************)
(* The rule engine on its own: the worker holds a task whose text has been *)
(* converted, and runs lines 108-139 on it, for every converted text and   *)
(* every rule list within the bounds.                                      *)
(***************************************************************************)
Alphabet == {"a", "b", "c"}

SeqsUpTo(S, n) == UNION {[1..k -> S] : k \in 0..n}

RulePatterns == {<<>>, <<"a">>, <<"b">>, <<"a", "b">>}

RuleReplacements == {<<>>, <<"b">>, <<"c">>}

AllRules == {Rule(p, r) : p \in RulePatterns, r \in RuleReplacements}

InitRules ==
    /\ platform = "macos"
    /\ mathpix_api_key = "k1"
    /\ replace_rules \in SeqsUpTo(AllRules, MaxRules)
    /\ clipboard_mode \in Modes
    /\ bring_forward = FALSE
    /\ poisoned = FALSE
    /\ task_queue = <<>>
    /\ next_id = 2
    /\ hook_alive = TRUE
    /\ ui_alive = TRUE
    /\ w_pc = "deliver"
    /\ \E typst \in SeqsUpTo(Alphabet, MaxLen) :
          w = [WIdle EXCEPT !.task = 1, !.key = "k1", !.authorization = "k1",
                            !.text = <<"a">>,
                            !.snip_count = 1, !.snip_limit = 5,
                            !.conv = [ok |-> TRUE, val |-> typst],
                            !.typst = typst, !.typst_replaced = typst]
    /\ result_channel = <<>>
    /\ clipboard = <<>>
    /\ snip_items = <<>>
    /\ selected_snip_item = 0
    /\ usage = [snip_count |-> 0, snip_limit |-> 0]
    /\ continuous_buffer = <<>>
    /\ hist = <<[enq_mode |-> clipboard_mode, outcome |-> "running",
                 read_mode |-> "none"]>>
    /\ clip_log = <<>>
    /\ emitted = <<>>
    /\ buf_log = <<>>
    /\ main_view = "Main"
    /\ overlay = FALSE
    /\ screenshot_start = None
    /\ screenshot_end = None
    /\ result_queue = <<>>
    /\ threads = {}
    /\ captures = 0
    /\ added = 0
    /\ main_exited = FALSE

NextRules ==
    \/ WorkerDeliver
    \/ WorkerSend

SpecRules == InitRules /\ [][NextRules]_vars

(***************************************************************************)
(* A session kept in Continuous mode, in which the user edits the API key  *)
(* while the worker runs.                                                  *)
(***************************************************************************)
InitContinuous ==
    /\ platform = "macos"
    /\ mathpix_api_key = "k1"
    /\ replace_rules \in RuleLists
    /\ clipboard_mode = "Continuous"
    /\ bring_forward = FALSE
    /\ poisoned = FALSE
    /\ task_queue = <<>>
    /\ next_id = 1
    /\ hook_alive = TRUE
    /\ ui_alive = TRUE
    /\ w_pc = "recv"
    /\ w = WIdle
    /\ result_channel = <<>>
    /\ clipboard = <<>>
    /\ snip_items = <<>>
    /\ selected_snip_item = 0
    /\ usage = [snip_count |-> 0, snip_limit |-> 0]
    /\ continuous_buffer = <<>>
    /\ hist = NoHist
    /\ clip_log = <<>>
    /\ emitted = <<>>
    /\ buf_log = <<>>
    /\ main_view = "Main"
    /\ overlay = FALSE
    /\ screenshot_start = None
    /\ screenshot_end = None
    /\ result_queue = <<>>
    /\ threads = {}
    /\ captures = 0
    /\ added = 0
    /\ main_exited = FALSE

NextContinuous ==
    \/ Hotkey
    \/ WorkerRecv
    \/ WorkerBringForward
    \/ WorkerHeaders
    \/ WorkerCapture
    \/ WorkerTranscribe
    \/ WorkerDeliver
    \/ WorkerSend
    \/ MergeTick
    \/ SetApiKey
    \/ Shutdown

SpecContinuous == InitContinuous /\ [][NextContinuous]_vars

(***************************************************************************)
(* A session whose UI thread panics inside update with the guard on the    *)
(* shared data held: the guard's drop poisons the Mutex, and the app with  *)
(* its result receiver is dropped later, as the unwinding goes on.         *)
(***************************************************************************)
InitPoison ==
    /\ platform = "macos"
    /\ mathpix_api_key = "k1"
    /\ replace_rules \in RuleLists
    /\ clipboard_mode \in Modes
    /\ bring_forward \in BOOLEAN
    /\ poisoned = FALSE
    /\ task_queue = <<>>
    /\ next_id = 1
    /\ hook_alive = TRUE
    /\ ui_alive = TRUE
    /\ w_pc = "recv"
    /\ w = WIdle
    /\ result_channel = <<>>
    /\ clipboard = <<>>
    /\ snip_items = <<>>
    /\ selected_snip_item = 0
    /\ usage = [snip_count |-> 0, snip_limit |-> 0]
    /\ continuous_buffer = <<>>
    /\ hist = NoHist
    /\ clip_log = <<>>
    /\ emitted = <<>>
    /\ buf_log = <<>>
    /\ main_view = "Main"
    /\ overlay = FALSE
    /\ screenshot_start = None
    /\ screenshot_end = None
    /\ result_queue = <<>>
    /\ threads = {}
    /\ captures = 0
    /\ added = 0
    /\ main_exited = FALSE

UiPanic ==
    /\ ui_alive
    /\ ~poisoned
    /\ poisoned' = TRUE
    /\ UNCHANGED <<app_vars, platform, config_vars, task_queue, next_id, hook_alive,
                   ui_alive, w_pc, w, result_channel, clipboard, ui_vars, hist, clip_log,
                   emitted, buf_log>>

NextPoison ==
    \/ Hotkey
    \/ WorkerRecv
    \/ WorkerBringForward
    \/ WorkerHeaders
    \/ WorkerCapture
    \/ WorkerTranscribe
    \/ WorkerDeliver
    \/ WorkerSend
    \/ UiPanic
    \/ Shutdown

SpecPoison == InitPoison /\ [][NextPoison]_vars

(***************************************************************************)
(* Shutdown: run_native returns, main waits for the worker thread and      *)
(* leaves.  The threads are scheduled fairly; the user need not press the  *)
(* hotkey again.                                                           *)
(***************************************************************************)
InitShutdown ==
    /\ platform = "macos"
    /\ mathpix_api_key = "k1"
    /\ replace_rules = <<>>
    /\ clipboard_mode \in Modes
    /\ bring_forward = FALSE
    /\ poisoned = FALSE
    /\ task_queue = <<>>
    /\ next_id = 1
    /\ hook_alive = TRUE
    /\ ui_alive = TRUE
    /\ w_pc = "recv"
    /\ w = WIdle
    /\ result_channel = <<>>
    /\ clipboard = <<>>
    /\ snip_items = <<>>
    /\ selected_snip_item = 0
    /\ usage = [snip_count |-> 0, snip_limit |-> 0]
    /\ continuous_buffer = <<>>
    /\ hist = NoHist
    /\ clip_log = <<>>
    /\ emitted = <<>>
    /\ buf_log = <<>>
    /\ main_view = "Main"
    /\ overlay = FALSE
    /\ screenshot_start = None
    /\ screenshot_end = None
    /\ result_queue = <<>>
    /\ threads = {}
    /\ captures = 0
    /\ added = 0
    /\ main_exited = FALSE

\* main.rs:44-45: worker_thread.join() returns once the worker thread has
\* ended, and main then leaves its scope, dropping hook with the callback
MainJoin ==
    /\ ~ui_alive
    /\ ~main_exited
    /\ w_pc \in {"exited", "panicked"}
    /\ main_exited' = TRUE
    /\ UNCHANGED <<main_view, overlay, screenshot_start, screenshot_end, result_queue,
                   threads, captures, added, platform, config_vars, poisoned,
                   task_queue, next_id, hook_alive, ui_alive, w_pc, w, result_channel,
                   clipboard, ui_vars, hist, clip_log, emitted, buf_log>>

NextShutdown ==
    \/ Hotkey
    \/ WorkerRecv
    \/ WorkerBringForward
    \/ WorkerHeaders
    \/ WorkerCapture
    \/ WorkerTranscribe
    \/ WorkerDeliver
    \/ WorkerSend
    \/ MergeTick
    \/ Shutdown
    \/ MainJoin

WorkerStep ==
    \/ WorkerRecv
    \/ WorkerBringForward
    \/ WorkerHeaders
    \/ WorkerCapture
    \/ WorkerTranscribe
    \/ WorkerDeliver
    \/ WorkerSend

SpecShutdown ==
    /\ InitShutdown
    /\ [][NextShutdown]_vars
    /\ WF_vars(WorkerStep)
    /\ WF_vars(MainJoin)

(***************************************************************************)
(* Definitions the properties share.                                       *)
(***************************************************************************)
\* number of clipboard writes the worker made for task t
Writes(t) == Cardinality({i \in DOMAIN clip_log : clip_log[i].id = t})

\* number of TaskResults sent for task t
Results(t) == Cardinality({i \in DOMAIN emitted : emitted[i] = t})

\* number of SnipItems merged from a result of task t
Items(t) == Cardinality({i \in DOMAIN snip_items : snip_items[i].from = t})

\* number of blocks the merge appended to the buffer for task t
Appends(t) == Cardinality({i \in DOMAIN buf_log : buf_log[i] = t})

WithOutcome(o) == {t \in Tasks : hist[t].outcome = o}

Dropped == WithOutcome("cancelled") \cup WithOutcome("malformed")

\* the worker has taken every submitted task and is back at the receive
AllProcessed == w_pc = "recv" /\ task_queue = <<>>

\* the result the send of this step put on the channel
LastSent == result_channel'[Len(result_channel')]

\* the worker has run lines 109-125 with the lock taken
RulesWereRead == w_pc = "send" /\ hist[w.task].read_mode # "none"

C2_DroppedState ==
    /\ \A t \in Tasks : Results(t) <= 1
    /\ \A t \in Dropped : Results(t) = 0 /\ Writes(t) = 0 /\ Items(t) = 0

C2_DropStep ==
    (w.task \in Tasks /\ w.task \in Dropped')
        => /\ w_pc' = "recv"
           /\ UNCHANGED <<result_channel, emitted, clipboard, clip_log, snip_items,
                          task_queue>>

(***************************************************************************)
(* C2  Every task yields at most one TaskResult; a task whose capture was  *)
(* cancelled or whose response failed to parse has no result, no clipboard *)
(* write and no SnipItem; the step that drops it leaves the result         *)
(* channel, the clipboard and the item list as they were and puts the      *)
(* worker back at the receive, for the next queued task.                   *)
(***************************************************************************)
C2_DroppedTask == []C2_DroppedState /\ [][C2_DropStep]_vars

\* a dropped task, and a task submitted after it that has its result
C2_Witness ==
    \E t \in Dropped, u \in WithOutcome("result") : t < u /\ Results(u) = 1

C4_ItemsInSubmissionOrder ==
    \A i, j \in DOMAIN snip_items :
        (i < j /\ snip_items[i].from > 0 /\ snip_items[j].from > 0)
            => snip_items[i].from < snip_items[j].from

C5_WriteState ==
    /\ \A t \in Tasks : Writes(t) <= 1
    /\ RulesWereRead
          => Writes(w.task) =
                IF hist[w.task].read_mode \in {"CopyTeX", "CopyTypst"} THEN 1 ELSE 0

C5_WriteStep ==
    /\ (w_pc = "deliver" /\ w_pc' = "send" /\ ~poisoned)
          => /\ hist'[w.task].read_mode = clipboard_mode
             /\ Len(clip_log') - Len(clip_log) =
                   IF clipboard_mode \in {"CopyTeX", "CopyTypst"} THEN 1 ELSE 0
    /\ \A t \in Tasks : hist[t].outcome = "result" => Writes(t)' = Writes(t)

(***************************************************************************)
(* C5  The worker writes the clipboard exactly once for a task whose       *)
(* result it produces in CopyTeX or CopyTypst mode and not at all in       *)
(* Continuous mode, the mode being clipboard_mode as it is when the result *)
(* is produced, not as it was at enqueue; no task ever has more than one   *)
(* write, and the writes of a completed task never change.                 *)
(***************************************************************************)
C5_ClipboardWrites == []C5_WriteState /\ [][C5_WriteStep]_vars

\* a task enqueued in Continuous mode whose result was produced in CopyTeX
\* mode, with its one write
C5_Witness ==
    /\ w_pc = "send"
    /\ hist[w.task].enq_mode = "Continuous"
    /\ hist[w.task].read_mode = "CopyTeX"
    /\ Writes(w.task) = 1

C6_SendStep ==
    (w_pc = "send" /\ w_pc' = "recv") =>
        /\ LastSent.text = w.text
        /\ hist[w.task].read_mode = "CopyTeX" => clipboard' = LastSent.text
        /\ hist[w.task].read_mode = "CopyTypst" =>
              /\ clipboard' = LastSent.typst
              /\ LastSent.typst =
                    ApplyRules(ConvertedOrMessage(text_and_tex2typst(w.text)),
                               replace_rules)

(***************************************************************************)
(* C6  When the worker sends a result it produced in CopyTeX mode the      *)
(* clipboard holds that result's text, which is the transcribed text; in   *)
(* CopyTypst mode it holds the result's typst field, which is the          *)
(* converted text after the rules.                                         *)
(***************************************************************************)
C6_ClipboardContent == [][C6_SendStep]_vars

\* a result produced in CopyTypst mode, the rules having changed the text
C6_Witness ==
    /\ w_pc = "send"
    /\ hist[w.task].read_mode = "CopyTypst"
    /\ w.typst_replaced # w.typst
    /\ clipboard = w.typst_replaced

\* the rules applied one after the other, by position in the list
RuleChain(text, rules) ==
    LET step[i \in 0..Len(rules)] ==
            IF i = 0 THEN text
            ELSE replace(step[i - 1], rules[i].pattern, rules[i].replacement)
    IN  step[Len(rules)]

(***************************************************************************)
(* C7  The converted text after the rules is the chain                     *)
(* replace(.. replace(replace(typst, rule 1), rule 2) .., rule n) in list  *)
(* order; for the rules [(a -> b), (b -> c)] and the text a it is c.       *)
(***************************************************************************)
C7_RulesInListOrder ==
    RulesWereRead =>
        /\ w.typst_replaced = RuleChain(w.typst, replace_rules)
        /\ (/\ replace_rules = <<Rule(<<"a">>, <<"b">>), Rule(<<"b">>, <<"c">>)>>
            /\ w.typst = <<"a">>)
              => w.typst_replaced = <<"c">>

\* the second rule has rewritten what the first rule introduced
C7_Witness ==
    /\ RulesWereRead
    /\ replace_rules = <<Rule(<<"a">>, <<"b">>), Rule(<<"b">>, <<"c">>)>>
    /\ w.typst = <<"a">>
    /\ w.typst_replaced = <<"c">>

(***************************************************************************)
(* C8  A rule whose pattern is the empty string leaves the text as it is,  *)
(* whatever the text and the replacement.                                  *)
(***************************************************************************)
C8_EmptyPatternIsNoOp ==
    (RulesWereRead /\ Len(replace_rules) = 1 /\ replace_rules[1].pattern = <<>>)
        => w.typst_replaced = w.typst

C9_FallbackState ==
    ~w.conv.ok =>
        /\ w_pc \in {"deliver", "send"}
        /\ w.typst = ErrorPrefix \o w.conv.val

C9_FallbackStep ==
    (w_pc = "send" /\ w_pc' = "recv" /\ ~w.conv.ok /\ hist[w.task].read_mode # "none")
        => /\ Len(result_channel') = Len(result_channel) + 1
           /\ LastSent.id = w.task
           /\ LastSent.typst = ApplyRules(ErrorPrefix \o w.conv.val, replace_rules)

C10_WorkerSurvives ==
    (\E t \in Tasks : hist[t].outcome \in
         {"transport_failed", "clipboard_failed", "channel_closed"})
        => w_pc # "panicked"

C11_ReadStep ==
    (w_pc = "headers" /\ w_pc' = "capture") => w'.key = mathpix_api_key

C11_KeepStep ==
    (w_pc \in {"capture", "request"} /\ w_pc' \in {"capture", "request"})
        => w'.key = w.key

C11_RequestStep ==
    (w_pc = "request" /\ w_pc' = "deliver") => w'.authorization = w.key

(***************************************************************************)
(* C11  The credential of a task's request is the API key as the worker    *)
(* read it at the start of the task, after the dequeue and before the      *)
(* capture: the snapshot is taken from the shared key at that read, an     *)
(* edit of the key during the capture or before the request leaves it as   *)
(* it is, and the request carries the snapshot, not the key of that        *)
(* moment; the next task reads the edited key.                             *)
(***************************************************************************)
C11_CredentialSnapshot ==
    [][C11_ReadStep /\ C11_KeepStep /\ C11_RequestStep]_vars

\* the key was edited after the worker read it for the task in hand, and
\* the task's request went out with the key as read
C11_Witness ==
    /\ w_pc = "deliver"
    /\ w.key = "k1"
    /\ w.authorization = "k1"
    /\ mathpix_api_key = "k2"

\* the converted texts of the items, each followed by the line separator
RECURSIVE Blocks(_)
Blocks(items) ==
    IF items = <<>> THEN <<>>
    ELSE Head(items).typst \o LineSeparator \o Blocks(Tail(items))

Merged == next_id - 1 - added

\* number of results this step took from result_queue
Taken == Len(result_queue) - Len(result_queue')

C13_MergeState ==
    /\ \A i, j \in DOMAIN snip_items :
          (i # j /\ snip_items[i].from > 0) => snip_items[i].from # snip_items[j].from
    /\ \A i \in DOMAIN snip_items, k \in DOMAIN result_queue :
          snip_items[i].from # result_queue[k].from

C13_MergeStep ==
    /\ Merged' - Merged = (IF Taken > 0 THEN Taken ELSE 0)
    /\ (Taken > 0 /\ snip_items' # <<>>)
          => \E i \in DOMAIN snip_items' :
                /\ snip_items'[i].from = Popped(result_queue).from
                /\ snip_items'[i].tex = Popped(result_queue).text

(***************************************************************************)
(* C13  Every result pushed to result_queue is merged exactly once: a tick *)
(* creates as many SnipItems by merging as it takes results from the       *)
(* queue, the item created is made from the result taken, no two items of  *)
(* the list come from the same result, and no result still queued has an   *)
(* item already.                                                           *)
(***************************************************************************)
C13_MergedExactlyOnce == []C13_MergeState /\ [][C13_MergeStep]_vars

\* two results were produced and both are drained, one item each
C13_Witness ==
    /\ captures = 2
    /\ threads = {}
    /\ result_queue = <<>>
    /\ Merged = 2
    /\ \E i, j \in DOMAIN snip_items :
          snip_items[i].from = 1 /\ snip_items[j].from = 2

\* number of items of the list that were made by merging a result
MergedItems(items) == Cardinality({i \in DOMAIN items : items[i].from > 0})

C14_TickStep ==
    /\ Taken <= 1
    /\ Merged' - Merged <= 1
    /\ MergedItems(snip_items') <= MergedItems(snip_items) + 1
    /\ Taken = 1 =>
          result_queue' = SubSeq(result_queue, 1, Len(result_queue) - 1)

(***************************************************************************)
(* C14  One call of update merges at most one pending result: it takes at  *)
(* most one result from result_queue, creates at most one item by merging, *)
(* the list gains at most one merged item, and the other pending results   *)
(* are left in the queue as they were.                                     *)
(***************************************************************************)
C14_OneMergePerTick == [][C14_TickStep]_vars

\* both captures have delivered their result, one is merged and the other
\* is still queued
C14_Witness ==
    /\ captures = 2
    /\ threads = {}
    /\ Len(result_queue) = 1
    /\ Merged = 1
    /\ MergedItems(snip_items) = 1

\* the text the transcription service returned for the task in hand
ServiceText == <<"a">>

C15_TextState ==
    /\ w_pc \in {"deliver", "send"} => w.text = ServiceText
    /\ \A i \in DOMAIN result_channel : result_channel[i].text = ServiceText

C15_TextStep ==
    (w_pc = "send" /\ w_pc' = "recv") =>
        /\ LastSent.text = w.text
        /\ LastSent.typst = ApplyRules(w.typst, replace_rules)

(***************************************************************************)
(* C15  For every rule list, the rules leave the source text alone: from   *)
(* the conversion to the send the worker's text is the text the service    *)
(* returned, the TaskResult's text field is that text, and only its typst  *)
(* field is the outcome of the rules.                                      *)
(***************************************************************************)
C15_SourceTextUntouched == []C15_TextState /\ [][C15_TextStep]_vars

\* a rule that matches the source text has rewritten the converted text
\* and the result sent still carries the source text
C15_Witness ==
    /\ result_channel # <<>>
    /\ replace_rules = <<Rule(<<"a">>, <<"b">>)>>
    /\ result_channel[1].text = <<"a">>
    /\ result_channel[1].typst = <<"b">>

(***************************************************************************)
(* C16  Tasks are processed strictly one at a time: at most one task is    *)
(* between its dequeue and its outcome, and at most one transcription      *)
(* request is in flight.                                                   *)
(***************************************************************************)
C16_OneTaskAtATime ==
    /\ Cardinality(WithOutcome("running")) <= 1
    /\ Cardinality(threads) <= 1

(***************************************************************************)
(* C17  The worker never holds the lock on the shared data across an       *)
(* external operation: no clipboard write is made with the lock held, and  *)
(* a failure of the bring-forward process or of the clipboard, which       *)
(* panics the worker, does not find the lock held and so cannot poison it. *)
(***************************************************************************)
C17_LockOnlyForFieldRead ==
    /\ \A i \in DOMAIN clip_log : ~clip_log[i].locked
    /\ (\E t \in Tasks : hist[t].outcome \in {"osascript_failed", "clipboard_failed"})
          => ~poisoned

\* the trigger fired in this step
Fired == Tasks' # Tasks \/ hook_alive' # hook_alive

C18_QueueState ==
    /\ \A i, j \in DOMAIN task_queue : i # j => task_queue[i].id # task_queue[j].id
    /\ \A t \in Tasks :
          hist[t].outcome = "queued" <=> \E i \in DOMAIN task_queue : task_queue[i].id = t
    /\ hook_alive \/ w_pc = "panicked"

C18_SubmitStep ==
    Fired =>
        IF w_pc # "panicked"
        THEN /\ task_queue' = Append(task_queue, [id |-> next_id])
             /\ next_id \notin Tasks
             /\ Tasks' = Tasks \cup {next_id}
             /\ hook_alive'
        ELSE /\ UNCHANGED <<task_queue, hist>>
             /\ ~hook_alive'

C19_PoisonTolerated ==
    \A t \in Tasks : hist[t].outcome # "lock_poisoned"

(***************************************************************************)
(* C20  A tick that merges a result makes the item it appends the current  *)
(* selection: after the tick selected_snip_item is the id of that item.    *)
(***************************************************************************)
C20_MergeSelects ==
    [][Taken = 1 =>
          /\ selected_snip_item' = next_id
          /\ \E i \in DOMAIN snip_items' : snip_items'[i].id = selected_snip_item']_vars

\* used / limit of a result, in thousandths
UsageFraction(result) == (result.snip_count * 1000) \div result.snip_limit

(***************************************************************************)
(* C21  After a tick that merged a result, the usage shown is the          *)
(* used/limit pair of that result, as the service reported it.             *)
(***************************************************************************)
C21_UsageOfLastMerged ==
    [][Taken = 1 => ProgressBarFraction = UsageFraction(Popped(result_queue))]_vars

(***************************************************************************)
(* C22  Shutdown terminates: once the UI event loop has returned and the   *)
(* app is dropped, the worker's loop ends and main gets past its join on   *)
(* the worker thread.                                                      *)
(***************************************************************************)
C22_ShutdownTerminates == ~ui_alive ~> main_exited

C24_NoSelectionWithoutOverlay ==
    ~overlay => (screenshot_start = None /\ screenshot_end = None)

(***************************************************************************)
(* C25  selected_snip_item is None or the id of an item that is in         *)
(* snip_items.                                                             *)
(***************************************************************************)
C25_SelectionIsPresent ==
    \/ selected_snip_item = 0
    \/ \E i \in DOMAIN snip_items : snip_items[i].id = selected_snip_item

C26_IdState ==
    /\ \A i \in DOMAIN result_channel : result_channel[i].id \in WithOutcome("result")
    /\ \A i, j \in DOMAIN emitted : (i < j) => emitted[i] < emitted[j]
    /\ \A i \in DOMAIN snip_items : snip_items[i].from \in WithOutcome("result")

C26_IdStep ==
    (w_pc = "send" /\ w_pc' = "recv") =>
        /\ LastSent.id = w.task
        /\ hist[w.task].outcome = "running"
        /\ hist'[w.task].outcome = "result"

(***************************************************************************)
(* C26  Every TaskResult carries the id of the task whose processing       *)
(* produced it: the result the worker sends has the id of the task in      *)
(* hand, so results of distinct tasks have distinct ids, every result in   *)
(* the channel or merged names a task that completed, and the ids arrive   *)
(* in the order the tasks were submitted.                                  *)
(***************************************************************************)
C26_ResultCarriesTaskId == []C26_IdState /\ [][C26_IdStep]_vars

\* the first task was dropped: the only result is first by arrival and
\* carries the id of the second task
C26_Witness ==
    /\ emitted = <<2>>
    /\ hist[1].outcome = "cancelled"
    /\ Len(result_channel) = 1
    /\ result_channel[1].id = 2

====
